---- MODULE Spec2Model ----
(***************************************************************************)
(* Authentication and session security of the expense tracker backend:     *)
(* the sliding-window rate limiter (in-memory and Redis backends), the     *)
(* login handler with its failed-attempt lockout, token issuance and the   *)
(* admin operations on credential records.                                 *)
(*                                                                         *)
(* Time is the integer number of seconds since the start of the run; it    *)
(* stands for time.time() and datetime.utcnow() alike.                     *)
(***************************************************************************)
EXTENDS Integers, Sequences, FiniteSets, TLC

VARIABLES
    now,          \* the clock read by time.time() / datetime.utcnow()
    requests,     \* InMemoryRateLimiter._requests: key -> deque of timestamps
    zset,         \* Redis sorted sets: key -> the scores of its members, in order
    backend,      \* RateLimiter.backend: "memory" or "redis"
    available,    \* RedisRateLimiter.available
    hasFallback,  \* whether RedisRateLimiter.fallback was ever assigned
    redisUp,      \* environment: the Redis server answers
    users,        \* the users table: id -> row
    tokens,       \* every token issued so far
    nextJti,      \* source of fresh jti values
    inflight,     \* per worker: the login request between its SELECT and its COMMIT
    resp,         \* the response of the last completed operation
    blacklist,    \* TokenBlacklist._blacklisted_tokens: the revoked jti values
    transactions, \* the transactions table: a set of rows
    categories,   \* the categories table: a set of rows
    seq,          \* the autoincrement counters of the two tables
    calls,        \* history: key -> the direct is_allowed calls made, in order
    expect        \* history: per user, the failures counted and the lock they imply

vars == <<now, requests, zset, backend, available, hasFallback, redisUp,
          users, tokens, nextJti, inflight, resp, blacklist, transactions,
          categories, seq, calls, expect>>

\* the state outside the limiter and the users table
appVars == <<blacklist, transactions, categories, seq>>


-----------------------------------------------------------------------------
(* Bounds of the exploration *)

Horizon == 2100          \* the login specifications stop the clock here
HorizonConc == 1800       \* the concurrent specification stops the clock here
HorizonAuth == 2700       \* the get_current_user specification stops the clock here
HorizonReg == 3600       \* the registration specification stops the clock here
HorizonTok == 604801     \* the token specification stops the clock here
MaxTokJti == 2           \* logins stop once this many tokens were issued
MaxAuthCalls == 1        \* get_current_user calls explored per client and window
MaxTransactions == 2     \* transactions created in the data specification
MaxCategories == 2       \* categories created in the data specification
HorizonLock == 1800
HorizonCheck == 300
MaxCheckCalls == 6
HorizonRLConc == 3600    \* the concurrent limiter specification stops the clock here
MaxConcCalls == 5        \* is_allowed calls explored in the concurrent limiter specification
HorizonRL == 300         \* the rate-limiter specification stops the clock here
MaxJti == 4              \* at most this many tokens are issued
MaxCalls == 11           \* is_allowed calls explored on the one key of SpecRL
MaxKeyCalls == 6         \* is_allowed calls explored on the first key of SpecKeys
MaxOtherCalls == 1       \* is_allowed calls explored on each other key of SpecKeys

TickSteps == {300, 1800}
TickStepsConc == {1800}
\* the instants visited while tokens are presented: the expiry of an access
\* and of a refresh token issued at 0, and the second after each
TimePointsTok == {1800, 1801, 604800, 604801}
TickStepsAuth == {900}
TickStepsReg == {3600}
TickStepsRL == {60}
TickStepsKeys == {300}
TickStepsRLConc == {1800}

\* the (rule, client) pairs whose requests the rate-limiter specifications explore:
\* one key in depth, or that key next to another client's and another rule's
RLRequests == { <<"login", "10.0.0.1">> }
RLConcRequests == { <<"register", "10.0.0.1">> }
KeysRequests == { <<"login", "10.0.0.1">>, <<"login", "10.0.0.2">>,
                  <<"register", "10.0.0.1">> }
CallBudget(rule, ip) ==
    IF <<rule, ip>> = <<"login", "10.0.0.1">> THEN MaxKeyCalls ELSE MaxOtherCalls

\* the login attempts and the admin calls <<actor, target>> explored
LoginRequests == { <<"10.0.0.1", "alice@x.com", "CorrectPass1!">>,
                   <<"10.0.0.1", "alice@x.com", "WrongPass1!">>,
                   <<"10.0.0.1", "nobody@x.com", "WrongPass1!">> }
AdminRequests == { <<2, 1>>, <<1, 1>>, <<2, 2>> }
\* the registrations <<client, username, email>> explored
RegRequests == { <<"10.0.0.1", "bob", "bob@x.com">>,
                 <<"10.0.0.2", "bob", "robert@x.com">>,
                 <<"10.0.0.2", "bobby", "bob@x.com">>,
                 <<"10.0.0.1", "alice", "alice2@x.com">>,
                 <<"10.0.0.1", "al", "alice@x.com">> }
\* the logins and admin calls explored while tokens are presented
TokLoginRequests == { <<"10.0.0.1", "alice@x.com", "CorrectPass1!">> }
AuthLoginRequests == { <<"10.0.0.1", "alice@x.com", "CorrectPass1!">>,
                       <<"10.0.0.1", "alice@x.com", "WrongPass1!">> }
TokAdminRequests == { <<2, 1>> }
IPs == {"10.0.0.1", "10.0.0.2"}
Workers == {"w1", "w2"}

-----------------------------------------------------------------------------
(* Program constants *)

LoginLimit == 5
LoginWindow == 300
RegisterLimit == 3
RegisterWindow == 3600
ApiLimit == 100
ApiWindow == 3600
PasswordResetLimit == 3
PasswordResetWindow == 3600

LockThreshold == 5
LockoutMinutes == 30
AccessTokenExpireMinutes == 30
RefreshTokenExpireDays == 7

None == <<>>               \* Python's None; a nullable datetime column holds None or At(t)
At(t) == <<t>>
TimeOf(dt) == dt[1]

rules ==
    [ login          |-> [limit |-> LoginLimit, window_seconds |-> LoginWindow],
      register       |-> [limit |-> RegisterLimit, window_seconds |-> RegisterWindow],
      api            |-> [limit |-> ApiLimit, window_seconds |-> ApiWindow],
      password_reset |-> [limit |-> PasswordResetLimit,
                          window_seconds |-> PasswordResetWindow] ]

RuleNames == DOMAIN rules

\* RateLimitRule._default_key_func: one key per client for every rule
KeyOfDefault(rule, ip) == "rate_limit:" \o ip

\* key_func of each rule: f"{rule}:{client_ip}"
KeyOf(rule, ip) == rule \o ":" \o ip

Keys == { KeyOf(r, ip) : r \in RuleNames, ip \in IPs }

Max(a, b) == IF a >= b THEN a ELSE b

-----------------------------------------------------------------------------
(* InMemoryRateLimiter *)

\* the popleft loop: drop from the head while head <= cutoff
RECURSIVE PopExpired(_, _)
PopExpired(q, cutoff) ==
    IF q # <<>> /\ Head(q) <= cutoff THEN PopExpired(Tail(q), cutoff) ELSE q

MemIsAllowed(reqs, key, limit, window, t) ==
    LET request_times == PopExpired(reqs[key], t - window) IN
    IF Len(request_times) >= limit
    THEN [allowed |-> FALSE, raised |-> FALSE,
          requests |-> [reqs EXCEPT ![key] = request_times]]
    ELSE [allowed |-> TRUE, raised |-> FALSE,
          requests |-> [reqs EXCEPT ![key] = Append(request_times, t)]]

MemRemaining(reqs, key, limit, window, t) ==
    LET request_times == PopExpired(reqs[key], t - window) IN
    [remaining |-> Max(0, limit - Len(request_times)), raised |-> FALSE,
     requests |-> [reqs EXCEPT ![key] = request_times]]

-----------------------------------------------------------------------------
(* RedisRateLimiter *)

\* RedisRateLimiter.__init__: ping succeeded => available, and no fallback is
\* ever assigned; ping failed => not available, fallback = InMemoryRateLimiter()
RedisInit(up) == [available |-> up, hasFallback |-> ~up]

\* A sorted set is kept as the ascending sequence of its members' scores. The
\* member of a request is str(time.time()); distinct calls read distinct clock
\* values, so requests that fall into the same second of the model's clock are
\* distinct members with equal (whole-second) scores.

\* pipeline.expire(key, window_seconds): the key is gone once window_seconds
\* have passed since the last is_allowed on it (whose zadd is its largest score)
Expire(scores, window, t) ==
    IF scores # <<>> /\ scores[Len(scores)] + window <= t THEN <<>> ELSE scores

\* zremrangebyscore(key, lo, hi)
ZRemRangeByScore(scores, lo, hi) ==
    SelectSeq(scores, LAMBDA sc : ~(lo <= sc /\ sc <= hi))

\* self.fallback.<method>: AttributeError when fallback was never assigned
RedisIsAllowed(z, reqs, key, limit, window, t, avail, fb, up) ==
    LET viaFallback ==
            IF fb
            THEN MemIsAllowed(reqs, key, limit, window, t)
                     @@ [zset |-> z, via |-> "fallback"]
            ELSE [allowed |-> FALSE, raised |-> TRUE, requests |-> reqs, zset |-> z,
                  via |-> "none"]
    IN
    IF ~avail THEN viaFallback
    ELSE IF up
    THEN LET kept == ZRemRangeByScore(Expire(z[key], window, t), 0, t - window)
             current_count == Len(kept)
         IN  [allowed |-> current_count < limit, raised |-> FALSE,
              requests |-> reqs, via |-> "redis",
              \* zadd(key, {str(current_time): current_time}) runs on every call
              zset |-> [z EXCEPT ![key] = Append(kept, t)]]
    ELSE viaFallback

RedisRemaining(z, reqs, key, limit, window, t, avail, fb, up) ==
    LET viaFallback ==
            IF fb
            THEN MemRemaining(reqs, key, limit, window, t)
                     @@ [zset |-> z, via |-> "fallback"]
            ELSE [remaining |-> 0, raised |-> TRUE, requests |-> reqs, zset |-> z,
                  via |-> "none"]
    IN
    IF ~avail THEN viaFallback
    ELSE IF up
    THEN LET kept == ZRemRangeByScore(Expire(z[key], window, t), 0, t - window)
             current_count == Len(kept)
         IN  [remaining |-> Max(0, limit - current_count), raised |-> FALSE,
              requests |-> reqs, via |-> "redis",
              zset |-> [z EXCEPT ![key] = kept]]
    ELSE viaFallback

-----------------------------------------------------------------------------
(* RateLimiter *)

\* self.backend.is_allowed(key, limit, window_seconds) on the windows z (Redis)
\* and reqs (in-memory), with the Redis server answering or not
BackendIsAllowed(z, reqs, up, key, limit, window, t) ==
    IF backend = "memory"
    THEN MemIsAllowed(reqs, key, limit, window, t) @@ [zset |-> z, via |-> "memory"]
    ELSE RedisIsAllowed(z, reqs, key, limit, window, t, available, hasFallback, up)

\* self.backend.get_remaining_requests(key, limit, window_seconds)
BackendRemaining(z, reqs, up, key, limit, window, t) ==
    IF backend = "memory"
    THEN MemRemaining(reqs, key, limit, window, t) @@ [zset |-> z, via |-> "memory"]
    ELSE RedisRemaining(z, reqs, key, limit, window, t, available, hasFallback, up)

\* RateLimiter.check_rate_limit(request, rule_name): is_allowed, then
\* get_remaining_requests on the windows it left behind
CheckRateLimit(z, reqs, up, rule_name, ip, t) ==
    LET rule == rules[rule_name]
        key == KeyOf(rule_name, ip)
        a == BackendIsAllowed(z, reqs, up, key, rule.limit, rule.window_seconds, t)
    IN  IF a.raised
        THEN [allowed |-> FALSE, raised |-> TRUE, remaining |-> 0,
              limit |-> rule.limit, window_seconds |-> rule.window_seconds,
              key |-> key, requests |-> a.requests, zset |-> a.zset]
        ELSE LET r == BackendRemaining(a.zset, a.requests, up, key, rule.limit,
                                       rule.window_seconds, t)
             IN  [allowed |-> a.allowed, raised |-> r.raised,
                  remaining |-> r.remaining,
                  limit |-> rule.limit, window_seconds |-> rule.window_seconds,
                  key |-> key, requests |-> r.requests, zset |-> r.zset]

-----------------------------------------------------------------------------
(* Credential records *)

UserIds == {1, 2}

\* PasswordSecurity.hash_password / verify_password (bcrypt; the salt is left out)
HashPassword(p) == <<"bcrypt", p>>
VerifyPassword(plain, hashed) == hashed = HashPassword(plain)

\* crud.create_user: the row of a freshly registered user (the columns login
\* and the admin operations read or write; username, full_name, phone,
\* avatar_url and the created_at/updated_at stamps are left out)
NewUser(id, username, email, password, role) ==
    [id |-> id, username |-> username, email |-> email,
     password_hash |-> HashPassword(password),
     role |-> role, is_active |-> TRUE, is_verified |-> FALSE,
     last_login |-> None, failed_login_attempts |-> 0, locked_until |-> None]

InitUsers ==
    [id \in UserIds |->
        IF id = 1 THEN NewUser(1, "alice", "alice@x.com", "CorrectPass1!", "user")
                  ELSE NewUser(2, "root", "root@x.com", "CorrectPass1!", "admin")]

NoResp == [op |-> "none"]

InitCommon ==
    /\ now = 0
    /\ requests = [k \in Keys |-> <<>>]
    /\ zset = [k \in Keys |-> <<>>]
    /\ redisUp \in BOOLEAN
    /\ users = InitUsers
    /\ tokens = {}
    /\ nextJti = 1
    /\ inflight = [w \in Workers |-> None]
    /\ resp = NoResp
    /\ blacklist = {}
    /\ transactions = {}
    /\ categories = {}
    /\ seq = [transactions |-> 0, categories |-> 0]
    /\ calls = [k \in Keys |-> <<>>]
    /\ expect = [id \in UserIds |-> [streak |-> 0, until |-> 0]]

\* RateLimiter.__init__(redis_url): either backend
InitRL ==
    /\ InitCommon
    /\ backend \in {"memory", "redis"}
    /\ available = (backend = "redis" /\ RedisInit(redisUp).available)
    /\ hasFallback = (backend = "redis" /\ RedisInit(redisUp).hasFallback)

-----------------------------------------------------------------------------
(* Direct calls of the limiter backend, as check_rate_limit makes them *)

Outcome(a) == IF a.raised THEN "raised" ELSE IF a.allowed THEN "allowed" ELSE "denied"

\* the calls of the window that ends at t
InWindow(cs, window, t) == SelectSeq(cs, LAMBDA c : c.t > t - window)

IsAllowed(rule_name, ip, budget) ==
    LET rule == rules[rule_name]
        key == KeyOf(rule_name, ip)
        a == BackendIsAllowed(zset, requests, redisUp, key, rule.limit,
                              rule.window_seconds, now)
    IN  /\ Len(calls[key]) < budget
        /\ requests' = a.requests
        /\ zset' = a.zset
        /\ resp' = [op |-> "is_allowed", rule |-> rule_name, ip |-> ip, key |-> key,
                    outcome |-> Outcome(a), via |-> a.via,
                    down |-> (backend = "redis" /\ ~redisUp)]
        /\ calls' = [calls EXCEPT ![key] =
                        Append(@, [t |-> now, out |-> Outcome(a)])]
        /\ UNCHANGED <<appVars, now, backend, available, hasFallback, redisUp,
                       users, tokens, nextJti, inflight, expect>>

GetRemaining(rule_name, ip) ==
    LET rule == rules[rule_name]
        key == KeyOf(rule_name, ip)
        r == BackendRemaining(zset, requests, redisUp, key, rule.limit,
                              rule.window_seconds, now)
    IN  /\ requests' = r.requests
        /\ zset' = r.zset
        /\ resp' = [op |-> "get_remaining_requests", rule |-> rule_name, ip |-> ip,
                    key |-> key,
                    outcome |-> IF r.raised THEN "raised" ELSE "returned",
                    remaining |-> r.remaining, via |-> r.via,
                    down |-> (backend = "redis" /\ ~redisUp)]
        /\ UNCHANGED <<appVars, now, backend, available, hasFallback, redisUp,
                       users, tokens, nextJti, inflight, calls, expect>>

\* the Redis server stops answering
RedisDown ==
    /\ backend = "redis" /\ redisUp
    /\ redisUp' = FALSE
    /\ UNCHANGED <<appVars, now, requests, zset, backend, available, hasFallback,
                   users, tokens, nextJti, inflight, resp, calls, expect>>

Tick(d, horizon) ==
    /\ now + d <= horizon
    /\ now' = now + d
    /\ UNCHANGED <<appVars, requests, zset, backend, available, hasFallback, redisUp,
                   users, tokens, nextJti, inflight, resp, calls, expect>>

NextRL ==
    \/ \E rq \in RLRequests : IsAllowed(rq[1], rq[2], MaxCalls)
    \/ \E rq \in RLRequests : GetRemaining(rq[1], rq[2])
    \/ RedisDown
    \/ \E d \in TickStepsRL : Tick(d, HorizonRL)

SpecRL == InitRL /\ [][NextRL]_vars

NextKeys ==
    \/ \E rq \in KeysRequests : IsAllowed(rq[1], rq[2], CallBudget(rq[1], rq[2]))
    \/ \E rq \in KeysRequests : GetRemaining(rq[1], rq[2])
    \/ RedisDown
    \/ \E d \in TickStepsKeys : Tick(d, HorizonRL)

SpecKeys == InitRL /\ [][NextKeys]_vars


-----------------------------------------------------------------------------
(* Tokens *)

\* settings.jwt_secret_key, and a key the server does not hold
SecretKey == "jwt_secret_key"
OtherKey == "not_the_secret_key"

\* jwt.encode(claims, key): the claims with an HS256 signature over all of them
Sign(claims, key) == <<"HS256", key, claims>>
ClaimsOf(token) == [f \in DOMAIN token \ {"sig"} |-> token[f]]
JwtEncode(claims, key) == [sig |-> Sign(claims, key)] @@ claims

\* JWTManager.create_access_token / create_refresh_token: to_encode.update(...)
\* then jwt.encode; jti = secrets.token_urlsafe(32) is a value never issued before
AccessToken(token_data, jti, t) ==
    JwtEncode([type |-> "access", jti |-> jti, iat |-> t,
               exp |-> t + AccessTokenExpireMinutes * 60] @@ token_data,
              SecretKey)

RefreshToken(token_data, jti, t) ==
    JwtEncode([type |-> "refresh", jti |-> jti, iat |-> t,
               exp |-> t + RefreshTokenExpireDays * 24 * 60 * 60] @@ token_data,
              SecretKey)

\* create_tokens_for_user(user_data)
CreateTokensForUser(user, jti, t) ==
    LET token_data == [sub |-> user.email, email |-> user.email,
                       user_id |-> user.id, role |-> user.role]
    IN  [access_token |-> AccessToken(token_data, jti, t),
         refresh_token |-> RefreshToken(token_data, jti + 1, t),
         token_type |-> "bearer"]

-----------------------------------------------------------------------------
(* POST /auth/login *)

MsgInvalid == "Invalid email or password"
MsgLocked == "Account temporarily locked due to multiple failed login attempts"
MsgDeactivated == "Account has been deactivated"
MsgRateLimited == "Too many login attempts. Try again in 300 seconds."
MsgOk == "Login successful"

\* crud.get_user_by_email: the row with that email, or None
GetUserByEmail(us, email) ==
    IF \E id \in DOMAIN us : us[id].email = email
    THEN us[CHOOSE id \in DOMAIN us : us[id].email = email]
    ELSE None

\* user.locked_until and user.locked_until > datetime.utcnow()
IsLocked(user, t) == user.locked_until # None /\ TimeOf(user.locked_until) > t

\* a mismatch branch that locks one failure late
FailedAttemptLate(user, t) ==
    LET failed == user.failed_login_attempts + 1 IN
    IF failed > LockThreshold
    THEN [failed_login_attempts |-> 0, locked_until |-> At(t + LockoutMinutes * 60)]
    ELSE [failed_login_attempts |-> failed]

\* a mismatch branch that locks without resetting the counter
FailedAttemptKeepCount(user, t) ==
    LET failed == user.failed_login_attempts + 1 IN
    IF failed >= LockThreshold
    THEN [failed_login_attempts |-> failed,
          locked_until |-> At(t + LockoutMinutes * 60)]
    ELSE [failed_login_attempts |-> failed]

\* the password mismatch branch: the columns it assigns before db.commit()
FailedAttempt(user, t) ==
    LET failed == user.failed_login_attempts + 1 IN
    IF failed >= LockThreshold
    THEN [failed_login_attempts |-> 0, locked_until |-> At(t + LockoutMinutes * 60)]
    ELSE [failed_login_attempts |-> failed]

\* a success branch that leaves an expired lock in place
SuccessfulLoginKeepLock(user, t) ==
    [failed_login_attempts |-> 0, last_login |-> At(t)]

\* the success branch: the columns it assigns before db.commit()
SuccessfulLogin(user, t) ==
    [failed_login_attempts |-> 0, locked_until |-> None, last_login |-> At(t)]

\* raise HTTPException(status_code=401, detail=msg)
Unauthorized(msg, verified, write) ==
    [status |-> 401, message |-> msg, verified |-> verified, write |-> write,
     access_token |-> None, refresh_token |-> None]

\* the 200 response: the columns written and the tokens created
LoggedIn(user, jti, t) ==
    LET tk == CreateTokensForUser(user, jti, t) IN
    [status |-> 200, message |-> MsgOk, verified |-> TRUE,
     write |-> SuccessfulLogin(user, t),
     access_token |-> tk.access_token, refresh_token |-> tk.refresh_token]

\* a login() that verifies the password before it looks at the lock
LoginDecideVerifyFirst(user, password, jti, t) ==
    IF user = None THEN Unauthorized(MsgInvalid, FALSE, None)
    ELSE IF ~VerifyPassword(password, user.password_hash)
    THEN Unauthorized(MsgInvalid, TRUE, FailedAttempt(user, t))
    ELSE IF IsLocked(user, t) THEN Unauthorized(MsgLocked, TRUE, None)
    ELSE IF ~user.is_active THEN Unauthorized(MsgDeactivated, TRUE, None)
    ELSE LoggedIn(user, jti, t)

\* a login() that tells an unknown email from a wrong password
LoginDecideDisclosing(user, password, jti, t) ==
    IF user = None THEN Unauthorized("User not found", FALSE, None)
    ELSE IF IsLocked(user, t) THEN Unauthorized(MsgLocked, FALSE, None)
    ELSE IF ~user.is_active THEN Unauthorized(MsgDeactivated, FALSE, None)
    ELSE IF ~VerifyPassword(password, user.password_hash)
    THEN Unauthorized(MsgInvalid, TRUE, FailedAttempt(user, t))
    ELSE LoggedIn(user, jti, t)

\* login() from the row it loaded to its response: the checks in the order of
\* the code, the columns written (write) and the tokens created
LoginDecide(user, password, jti, t) ==
    IF user = None THEN Unauthorized(MsgInvalid, FALSE, None)
    ELSE IF IsLocked(user, t) THEN Unauthorized(MsgLocked, FALSE, None)
    ELSE IF ~user.is_active THEN Unauthorized(MsgDeactivated, FALSE, None)
    ELSE IF ~VerifyPassword(password, user.password_hash)
    THEN Unauthorized(MsgInvalid, TRUE, FailedAttempt(user, t))
    ELSE LoggedIn(user, jti, t)

\* db.commit(): UPDATE users SET <the assigned columns> WHERE id = user.id
Commit(us, user, write) ==
    IF user = None \/ write = None THEN us
    ELSE [us EXCEPT ![user.id] =
            [f \in DOMAIN @ |-> IF f \in DOMAIN write THEN write[f] ELSE @[f]]]

\* history: what the claims expect of the failures counted on one account. The
\* fifth consecutive wrong password answered "Invalid email or password" is to
\* lock the account for 30 minutes (until); a successful login starts the count
\* anew, an admin reset or activation clears both.
Expect(ex, user, password, d, t) ==
    IF user = None THEN ex
    ELSE IF d.status = 200
    THEN [ex EXCEPT ![user.id] = [streak |-> 0, until |-> @.until]]
    ELSE IF d.message = MsgInvalid
    THEN [ex EXCEPT ![user.id] =
            IF @.streak + 1 = 5 THEN [streak |-> 0, until |-> t + 30 * 60]
                                ELSE [streak |-> @.streak + 1, until |-> @.until]]
    ELSE ex

LoginResp(ip, email, password, gate, read, d) ==
    [op |-> "login", ip |-> ip, email |-> email, password |-> password,
     gate |-> gate, read |-> read, status |-> d.status, message |-> d.message,
     verified |-> d.verified, access_token |-> d.access_token,
     refresh_token |-> d.refresh_token]

\* raise HTTPException(status_code=429, ...) in check_login_rate_limit
RateLimited ==
    [status |-> 429, message |-> MsgRateLimited, verified |-> FALSE,
     write |-> None, access_token |-> None, refresh_token |-> None]

\* what login() does once the limiter has let the request through, on the row
\* user that get_user_by_email returned
LoginBody(ip, email, password, user, gate) ==
    LET d == LoginDecide(user, password, nextJti, now) IN
    /\ d.status = 200 => nextJti + 1 <= MaxJti
    /\ users' = Commit(users, user, d.write)
    /\ tokens' = IF d.status = 200
                 THEN tokens \cup {d.access_token, d.refresh_token}
                 ELSE tokens
    /\ nextJti' = IF d.status = 200 THEN nextJti + 2 ELSE nextJti
    /\ expect' = Expect(expect, user, password, d, now)
    /\ resp' = IF gate = "allowed"
               THEN LoginResp(ip, email, password, gate, TRUE, d)
               ELSE LoginResp(ip, email, password, gate, TRUE, RateLimited)

\* a login() that consults the limiter only after it has handled the credentials
LoginGateLast(ip, email, password) ==
    LET g == CheckRateLimit(zset, requests, redisUp, "login", ip, now) IN
    /\ requests' = g.requests
    /\ zset' = g.zset
    /\ LoginBody(ip, email, password, GetUserByEmail(users, email),
                 IF g.allowed THEN "allowed" ELSE "denied")
    /\ UNCHANGED <<appVars, now, backend, available, hasFallback, redisUp, inflight, calls>>

\* the whole handler, requests served one at a time
Login(ip, email, password) ==
    LET g == CheckRateLimit(zset, requests, redisUp, "login", ip, now) IN
    /\ requests' = g.requests
    /\ zset' = g.zset
    /\ IF ~g.allowed
       THEN /\ resp' = LoginResp(ip, email, password, "denied", FALSE, RateLimited)
            /\ UNCHANGED <<users, tokens, nextJti, expect>>
       ELSE LoginBody(ip, email, password, GetUserByEmail(users, email), "allowed")
    /\ UNCHANGED <<appVars, now, backend, available, hasFallback, redisUp, inflight, calls>>

-----------------------------------------------------------------------------
(* Admin operations on credential records (crud/user.py) *)

\* locked: the operation found the target locked
AdminResp(op, actor, target, outcome) ==
    [op |-> op, actor |-> actor, target |-> target, outcome |-> outcome,
     locked |-> IsLocked(users[target], now)]

\* what the admin operations share: the privilege check, the UPDATE of the
\* columns they assign, db.commit()
AdminOp(op, actor, target, refused, columns) ==
    /\ IF users[actor].role # "admin" \/ refused
       THEN /\ resp' = AdminResp(op, actor, target, "ValueError")
            /\ UNCHANGED <<users, expect>>
       ELSE /\ users' = [users EXCEPT ![target] =
                            [f \in DOMAIN @ |->
                                IF f \in DOMAIN columns THEN columns[f] ELSE @[f]]]
            /\ resp' = AdminResp(op, actor, target, "ok")
            /\ expect' = IF "locked_until" \in DOMAIN columns
                         THEN [expect EXCEPT ![target] = [streak |-> 0, until |-> 0]]
                         ELSE expect
    /\ UNCHANGED <<appVars, now, requests, zset, backend, available, hasFallback, redisUp,
                   tokens, nextJti, inflight, calls>>

\* deactivate_user(db, user_id, current_user)
DeactivateUser(actor, target) ==
    AdminOp("deactivate_user", actor, target, target = actor, [is_active |-> FALSE])

\* activate_user(db, user_id, current_user)
ActivateUser(actor, target) ==
    AdminOp("activate_user", actor, target, FALSE,
            [is_active |-> TRUE, failed_login_attempts |-> 0, locked_until |-> None])

\* a reset that clears the counter and leaves locked_until as it is
ResetUserFailedAttemptsKeepLock(actor, target) ==
    AdminOp("reset_user_failed_attempts", actor, target, FALSE,
            [failed_login_attempts |-> 0])

\* reset_user_failed_attempts(db, user_id, current_user)
ResetUserFailedAttempts(actor, target) ==
    AdminOp("reset_user_failed_attempts", actor, target, FALSE,
            [failed_login_attempts |-> 0, locked_until |-> None])

-----------------------------------------------------------------------------
(* The deployed application: rate_limiter = RateLimiter(), the in-memory backend *)

Init ==
    /\ InitCommon
    /\ redisUp = FALSE
    /\ backend = "memory"
    /\ available = FALSE
    /\ hasFallback = FALSE

Next ==
    \/ \E r \in LoginRequests : Login(r[1], r[2], r[3])
    \/ \E r \in AdminRequests : DeactivateUser(r[1], r[2])
    \/ \E r \in AdminRequests : ActivateUser(r[1], r[2])
    \/ \E r \in AdminRequests : ResetUserFailedAttempts(r[1], r[2])
    \/ \E d \in TickSteps : Tick(d, Horizon)

Spec == Init /\ [][Next]_vars

-----------------------------------------------------------------------------
(* The same handler served by the thread pool: login is a plain def, so two
   requests run in two threads, each with its own Session. The row is read by
   get_user_by_email and written back by db.commit(); nothing locks it in
   between. *)

ConcRequests == { <<"10.0.0.1", "alice@x.com", "WrongPass1!">>,
                  <<"10.0.0.1", "alice@x.com", "CorrectPass1!">> }

\* check_login_rate_limit(request); user = get_user_by_email(db, email)
LoginBegin(w, ip, email, password) ==
    LET g == CheckRateLimit(zset, requests, redisUp, "login", ip, now) IN
    /\ inflight[w] = None
    /\ requests' = g.requests
    /\ zset' = g.zset
    /\ IF ~g.allowed
       THEN /\ resp' = LoginResp(ip, email, password, "denied", FALSE, RateLimited)
            /\ UNCHANGED inflight
       ELSE /\ inflight' = [inflight EXCEPT ![w] =
                    [ip |-> ip, email |-> email, password |-> password,
                     user |-> GetUserByEmail(users, email)]]
            /\ UNCHANGED resp
    /\ UNCHANGED <<appVars, now, backend, available, hasFallback, redisUp, users, tokens,
                   nextJti, calls, expect>>

\* the rest of login() on the row this thread loaded, up to db.commit() and
\* the response
LoginFinish(w) ==
    /\ inflight[w] # None
    /\ LET r == inflight[w] IN LoginBody(r.ip, r.email, r.password, r.user, "allowed")
    /\ inflight' = [inflight EXCEPT ![w] = None]
    /\ UNCHANGED <<appVars, now, requests, zset, backend, available, hasFallback, redisUp, calls>>

NextConc ==
    \/ \E w \in Workers, r \in ConcRequests : LoginBegin(w, r[1], r[2], r[3])
    \/ \E w \in Workers : LoginFinish(w)
    \/ \E d \in TickStepsConc : Tick(d, HorizonConc)

SpecConc == Init /\ [][NextConc]_vars

-----------------------------------------------------------------------------
(* POST /auth/register, served by the thread pool like login. The two
   existence checks are SELECTs; create_user is an INSERT into a table whose
   email and username columns are declared unique. The registrations explored
   pass validate_request_data. *)

MsgEmailExists == "User with this email already exists"
MsgUsernameTaken == "Username already taken"
MsgRegisterLimited == "Too many registration attempts. Try again in 3600 seconds."
MsgRegistered == "User registered successfully. Please verify your email."
MsgRegisterFailed == "Registration failed. Please try again."

\* crud.get_user_by_username
GetUserByUsername(us, username) ==
    IF \E id \in DOMAIN us : us[id].username = username
    THEN us[CHOOSE id \in DOMAIN us : us[id].username = username]
    ELSE None

RegisterResp(ip, username, email, status, message, user) ==
    [op |-> "register", ip |-> ip, username |-> username, email |-> email,
     status |-> status, message |-> message, user |-> user]

\* the unique indexes of the users table refuse the row (IntegrityError)
ViolatesUnique(us, username, email) ==
    \E id \in DOMAIN us : us[id].email = email \/ us[id].username = username

\* register_user() up to and including the two existence checks
RegisterBegin(w, ip, username, email, password) ==
    LET g == CheckRateLimit(zset, requests, redisUp, "register", ip, now) IN
    /\ inflight[w] = None
    /\ requests' = g.requests
    /\ zset' = g.zset
    /\ IF ~g.allowed
       THEN /\ resp' = RegisterResp(ip, username, email, 429, MsgRegisterLimited, None)
            /\ UNCHANGED inflight
       ELSE IF GetUserByEmail(users, email) # None
       THEN /\ resp' = RegisterResp(ip, username, email, 400, MsgEmailExists, None)
            /\ UNCHANGED inflight
       ELSE IF GetUserByUsername(users, username) # None
       THEN /\ resp' = RegisterResp(ip, username, email, 400, MsgUsernameTaken, None)
            /\ UNCHANGED inflight
       ELSE /\ inflight' = [inflight EXCEPT ![w] =
                    [ip |-> ip, username |-> username, email |-> email,
                     password |-> password]]
            /\ UNCHANGED resp
    /\ UNCHANGED <<appVars, now, backend, available, hasFallback, redisUp, users,
                   tokens, nextJti, calls, expect>>

\* create_user(db, user_data) and the response; an exception of the INSERT
\* ends in the handler's except Exception
RegisterFinish(w) ==
    /\ inflight[w] # None
    /\ LET r == inflight[w]
           id == Cardinality(DOMAIN users) + 1
           row == NewUser(id, r.username, r.email, r.password, "user")
       IN  IF ViolatesUnique(users, r.username, r.email)
           THEN /\ resp' = RegisterResp(r.ip, r.username, r.email, 500,
                                        MsgRegisterFailed, None)
                /\ UNCHANGED users
           ELSE /\ users' = [i \in DOMAIN users \cup {id} |->
                                IF i = id THEN row ELSE users[i]]
                /\ resp' = RegisterResp(r.ip, r.username, r.email, 201,
                                        MsgRegistered, row)
    /\ inflight' = [inflight EXCEPT ![w] = None]
    /\ UNCHANGED <<appVars, now, requests, zset, backend, available, hasFallback,
                   redisUp, tokens, nextJti, calls, expect>>

NextReg ==
    \/ \E w \in Workers, r \in RegRequests :
          RegisterBegin(w, r[1], r[2], r[3], "CorrectPass1!")
    \/ \E w \in Workers : RegisterFinish(w)
    \/ \E d \in TickStepsReg : Tick(d, HorizonReg)

SpecReg == Init /\ [][NextReg]_vars

-----------------------------------------------------------------------------
(* Token verification and revocation (core/security.py) *)

DetailInvalid == "Could not validate credentials"
DetailExpired == "Token expired"
DetailType == "Invalid token type"
DetailRevoked == "Token has been revoked"

\* jwt.decode(token, key): the signature is checked first, then exp against
\* the clock (expired when exp < now)
JwtDecode(token, key, t) ==
    IF ~("sig" \in DOMAIN token /\ token.sig = Sign(ClaimsOf(token), key))
    THEN [error |-> "JWTError", payload |-> None]
    ELSE IF token.exp < t
    THEN [error |-> "ExpiredSignatureError", payload |-> None]
    ELSE [error |-> None, payload |-> ClaimsOf(token)]

\* raise HTTPException(status_code=401, detail=detail)
Rejected(detail) == [ok |-> FALSE, status |-> 401, detail |-> detail, payload |-> None]
Verified(payload) == [ok |-> TRUE, status |-> 200, detail |-> None, payload |-> payload]

\* a verify_token that accepts either type
VerifyTokenAnyType(token, token_type, t) ==
    LET d == JwtDecode(token, SecretKey, t) IN
    IF d.error = "JWTError" THEN Rejected(DetailInvalid)
    ELSE IF d.error = "ExpiredSignatureError" THEN Rejected(DetailExpired)
    ELSE Verified(d.payload)

\* a verify_token whose decode does not look at exp
VerifyTokenNoExpiry(token, token_type, t) ==
    LET d == JwtDecode(token, SecretKey, 0) IN
    IF d.error = "JWTError" THEN Rejected(DetailInvalid)
    ELSE IF d.payload.type # token_type THEN Rejected(DetailType)
    ELSE Verified(d.payload)

\* JWTManager.verify_token(token, token_type)
VerifyToken(token, token_type, t) ==
    LET d == JwtDecode(token, SecretKey, t) IN
    IF d.error = "JWTError" THEN Rejected(DetailInvalid)
    ELSE IF d.error = "ExpiredSignatureError" THEN Rejected(DetailExpired)
    ELSE IF d.payload.type # token_type THEN Rejected(DetailType)
    ELSE Verified(d.payload)

\* a verify_access_token that never consults the blacklist
VerifyAccessTokenNoBlacklist(token, bl, t) == VerifyToken(token, "access", t)

\* verify_access_token(token), with TokenBlacklist.is_blacklisted
VerifyAccessToken(token, bl, t) ==
    LET r == VerifyToken(token, "access", t) IN
    IF r.ok /\ r.payload.jti \in bl THEN Rejected(DetailRevoked) ELSE r

\* a revoke that blacklists the jti it is shown without verifying the token
RevokeTokenUnverified(token, bl, t) ==
    IF "jti" \in DOMAIN token THEN bl \cup {token.jti} ELSE bl

\* revoke_token(token), with TokenBlacklist.add_token: the blacklist afterwards
RevokeToken(token, bl, t) ==
    LET r == VerifyToken(token, "access", t) IN
    IF r.ok THEN bl \cup {r.payload.jti} ELSE bl

\* what a client can present: the tokens issued, an issued refresh token with
\* its type claim rewritten to access (the signature no longer matches), the
\* same re-signed with another key, and a string that is no JWT
Tampered(token) ==
    [token EXCEPT !.type = IF @ = "access" THEN "refresh" ELSE "access"]
Forged(token) == JwtEncode(ClaimsOf(Tampered(token)), OtherKey)
Garbage == [junk |-> "not.a.jwt"]
Presented ==
    LET refresh == {tk \in tokens : tk.type = "refresh"} IN
    tokens \cup {Tampered(tk) : tk \in refresh} \cup {Forged(tk) : tk \in refresh}
           \cup {Garbage}

TokenResp(op, token, expected, r) ==
    [op |-> op, token |-> token, expected |-> expected, at |-> now,
     ok |-> r.ok, status |-> r.status, detail |-> r.detail, payload |-> r.payload]

tokFrame ==
    UNCHANGED <<now, requests, zset, backend, available, hasFallback, redisUp,
                users, tokens, nextJti, inflight, transactions, categories, seq,
                calls, expect>>

\* jwt_manager.verify_token(token, token_type) called directly
VerifyTokenCall(token, token_type) ==
    /\ resp' = TokenResp("verify_token", token, token_type,
                         VerifyToken(token, token_type, now))
    /\ UNCHANGED blacklist
    /\ tokFrame

VerifyAccessTokenCall(token) ==
    /\ resp' = TokenResp("verify_access_token", token, "access",
                         VerifyAccessToken(token, blacklist, now))
    /\ UNCHANGED blacklist
    /\ tokFrame

RevokeTokenCall(token) ==
    /\ blacklist' = RevokeToken(token, blacklist, now)
    /\ resp' = TokenResp("revoke_token", token, "access", Verified(None))
    /\ tokFrame

-----------------------------------------------------------------------------
(* POST /auth/refresh *)

\* the methods class JWTManager defines
JwtManagerMethods ==
    {"__init__", "create_access_token", "create_refresh_token", "verify_token"}

MsgInvalidRefresh == "Invalid refresh token"

\* refresh_token(): jwt_manager.refresh_access_token(...) is an attribute
\* lookup on JWTManager; a missing attribute raises AttributeError, which the
\* handler's except Exception turns into 401. The class defines no such
\* method, so there is no other path through the handler.
RefreshRoute(token) ==
    /\ "refresh_access_token" \notin JwtManagerMethods
    /\ resp' = [op |-> "refresh", token |-> token, at |-> now,
                status |-> 401, message |-> MsgInvalidRefresh,
                access_token |-> None]
    /\ UNCHANGED blacklist
    /\ tokFrame

-----------------------------------------------------------------------------
(* get_current_user (core/auth_deps.py) *)

MsgApiRateLimited == "API rate limit exceeded. Try again in 3600 seconds."

\* crud.get_user_by_id
GetUserById(us, user_id) == IF user_id \in DOMAIN us THEN us[user_id] ELSE None

AuthResp(ip, token, status, detail, user) ==
    [op |-> "get_current_user", ip |-> ip, token |-> token, at |-> now,
     status |-> status, detail |-> detail, user |-> user]

\* a get_current_user that returns the row without looking at is_active
AuthenticateInactive(ip, token) ==
    LET r == VerifyAccessToken(token, blacklist, now) IN
    IF ~r.ok THEN AuthResp(ip, token, 401, r.detail, None)
    ELSE AuthResp(ip, token, 200, None, GetUserById(users, r.payload.user_id))

\* a get_current_user that does not look at locked_until
AuthenticateUnlocked(ip, token) ==
    LET r == VerifyAccessToken(token, blacklist, now) IN
    IF ~r.ok THEN AuthResp(ip, token, 401, r.detail, None)
    ELSE LET user == GetUserById(users, r.payload.user_id) IN
         IF ~user.is_active
         THEN AuthResp(ip, token, 401, "User account is deactivated", None)
         ELSE AuthResp(ip, token, 200, None, user)

\* get_current_user after check_api_rate_limit: the token, the user row, the
\* is_active and lock checks
Authenticate(ip, token) ==
    LET r == VerifyAccessToken(token, blacklist, now) IN
    IF ~r.ok THEN AuthResp(ip, token, 401, r.detail, None)
    ELSE IF ~("user_id" \in DOMAIN r.payload /\ "email" \in DOMAIN r.payload)
    THEN AuthResp(ip, token, 401, "Invalid token payload", None)
    ELSE LET user == GetUserById(users, r.payload.user_id) IN
         IF user = None THEN AuthResp(ip, token, 401, "User not found", None)
         ELSE IF ~user.is_active
         THEN AuthResp(ip, token, 401, "User account is deactivated", None)
         ELSE IF IsLocked(user, now)
         THEN AuthResp(ip, token, 401, "User account is temporarily locked", None)
         ELSE AuthResp(ip, token, 200, None, user)

\* a get_current_user with the commented-out update of last_login switched on
GetCurrentUserTouch(ip, token) ==
    LET g == CheckRateLimit(zset, requests, redisUp, "api", ip, now)
        a == Authenticate(ip, token)
    IN  /\ Len(requests[KeyOf("api", ip)]) < MaxAuthCalls
              \/ Len(requests[KeyOf("api", ip)]) >= ApiLimit
        /\ requests' = g.requests
        /\ zset' = g.zset
        /\ resp' = IF g.allowed THEN a
                   ELSE AuthResp(ip, token, 429, MsgApiRateLimited, None)
        /\ users' = IF g.allowed /\ a.status = 200
                    THEN [users EXCEPT ![a.user.id].last_login = At(now)]
                    ELSE users
        /\ UNCHANGED <<now, backend, available, hasFallback, redisUp, tokens,
                       nextJti, inflight, appVars, calls, expect>>

GetCurrentUser(ip, token) ==
    LET g == CheckRateLimit(zset, requests, redisUp, "api", ip, now) IN
    /\ Len(requests[KeyOf("api", ip)]) < MaxAuthCalls
          \/ Len(requests[KeyOf("api", ip)]) >= ApiLimit
    /\ requests' = g.requests
    /\ zset' = g.zset
    /\ resp' = IF g.allowed THEN Authenticate(ip, token)
               ELSE AuthResp(ip, token, 429, MsgApiRateLimited, None)
    /\ UNCHANGED <<now, backend, available, hasFallback, redisUp, users, tokens,
                   nextJti, inflight, appVars, calls, expect>>

-----------------------------------------------------------------------------
(* Tokens in use: logins issue them, clients present them, time passes *)

BusyClient == "10.0.0.2"
Hundred == [i \in 1..ApiLimit |-> 0]

NextTok ==
    \/ \E r \in TokLoginRequests : nextJti < MaxTokJti /\ Login(r[1], r[2], r[3])
    \/ \E tk \in Presented, ty \in {"access", "refresh"} : VerifyTokenCall(tk, ty)
    \/ \E tk \in Presented : VerifyAccessTokenCall(tk)
    \/ \E tk \in Presented : RevokeTokenCall(tk)
    \/ \E tk \in Presented : RefreshRoute(tk)
    \/ \E tk \in Presented : GetCurrentUser("10.0.0.1", tk)
    \/ \E t \in TimePointsTok : t > now /\ Tick(t - now, HorizonTok)

SpecTok == Init /\ [][NextTok]_vars

\* the application after the client BusyClient has spent its api allowance of
\* the first second on requests with a string that is no JWT
InitAuth ==
    /\ now = 0
    /\ requests = [k \in Keys |-> IF k = KeyOf("api", BusyClient) THEN Hundred ELSE <<>>]
    /\ zset = [k \in Keys |-> <<>>]
    /\ redisUp = FALSE
    /\ backend = "memory"
    /\ available = FALSE
    /\ hasFallback = FALSE
    /\ users = InitUsers
    /\ tokens = {}
    /\ nextJti = 1
    /\ inflight = [w \in Workers |-> None]
    /\ resp = AuthResp(BusyClient, Garbage, 401, DetailInvalid, None)
    /\ blacklist = {}
    /\ transactions = {}
    /\ categories = {}
    /\ seq = [transactions |-> 0, categories |-> 0]
    /\ calls = [k \in Keys |-> <<>>]
    /\ expect = [id \in UserIds |-> [streak |-> 0, until |-> 0]]

NextAuth ==
    \/ \E r \in AuthLoginRequests :
          /\ nextJti < MaxTokJti \/ r[3] # "CorrectPass1!"
          /\ Login(r[1], r[2], r[3])
    \/ \E tk \in tokens : RevokeTokenCall(tk)
    \/ \E ip \in IPs, tk \in Presented : GetCurrentUser(ip, tk)
    \/ \E r \in TokAdminRequests : DeactivateUser(r[1], r[2])
    \/ \E r \in TokAdminRequests : ActivateUser(r[1], r[2])
    \/ \E d \in TickStepsAuth : Tick(d, HorizonAuth)

SpecAuth == InitAuth /\ [][NextAuth]_vars

-----------------------------------------------------------------------------
(* A token in use while its account is locked: the login that issues it, the
   wrong passwords that lock the account (from two clients: one client has
   five logins per five minutes), the requests bearing the token *)

LockLoginRequests == { <<"10.0.0.1", "alice@x.com", "CorrectPass1!">>,
                       <<"10.0.0.1", "alice@x.com", "WrongPass1!">>,
                       <<"10.0.0.2", "alice@x.com", "WrongPass1!">> }
TickStepsLock == {900}

NextLock ==
    \/ \E r \in LockLoginRequests :
          /\ nextJti < MaxTokJti \/ r[3] # "CorrectPass1!"
          /\ Login(r[1], r[2], r[3])
    \/ \E ip \in IPs, tk \in tokens : GetCurrentUser(ip, tk)
    \/ \E d \in TickStepsLock : Tick(d, HorizonLock)

SpecLock == InitAuth /\ [][NextLock]_vars

-----------------------------------------------------------------------------
(* Categories and transactions: routes -> services -> crud, for the user
   current_user that get_current_active_user has authenticated *)

MsgTransactionNotFound == "Transaction not found"
MsgCategoryNotFound == "Category not found"
MsgServerError == "Internal Server Error"

\* the first expense and the first income category of setup_admin.py
DemoCategories == << [name |-> "Food & Dining", type |-> "expense"],
                     [name |-> "Salary", type |-> "income"] >>

\* the request bodies explored
TransactionCreates == { [amount |-> 50, description |-> "lunch"] }
TransactionUpdates == { [description |-> "dinner"] }
CategoryCreates == { [name |-> "Books", type |-> "expense"] }
CategoryUpdates == { [name |-> "Renamed"] }

NoId == 0

\* the answer to a request: data holds the rows returned, id the id the request
\* named (NoId when it named none), detail the message of an error
DataResp(op, user_id, id, status, detail, data) ==
    [op |-> op, user |-> user_id, id |-> id, at |-> now, status |-> status,
     detail |-> detail, data |-> data]

ById(rows, id) ==
    IF \E r \in rows : r.id = id THEN CHOOSE r \in rows : r.id = id ELSE None

\* db.query(Transaction).filter(Transaction.id == transaction_id).first()
CrudGetTransaction(rows, transaction_id) == ById(rows, transaction_id)

\* a listing that leaves out the filter on user_id
CrudGetTransactionsAll(rows, user_id) == rows

\* db.query(Transaction).filter(Transaction.user_id == user_id)
CrudGetTransactions(rows, user_id) == { t \in rows : t.user_id = user_id }

\* filter(and_(Transaction.id == transaction_id, Transaction.user_id == user_id))
OwnTransaction(rows, transaction_id, user_id) ==
    IF \E t \in rows : t.id = transaction_id /\ t.user_id = user_id
    THEN CHOOSE t \in rows : t.id = transaction_id /\ t.user_id = user_id
    ELSE None

\* db.query(Category).filter(Category.id == category_id).first()
CrudGetCategory(rows, category_id) == ById(rows, category_id)

\* db.query(Category).offset(skip).limit(limit).all(), skip = 0, limit = 100
CrudGetCategories(rows) == rows

dataFrame == <<now, requests, zset, backend, available, hasFallback, redisUp,
               users, tokens, nextJti, inflight, blacklist, calls, expect>>

GetTransactions(current_user) ==
    /\ resp' = DataResp("get_transactions", current_user, NoId, 200, "",
                        CrudGetTransactions(transactions, current_user))
    /\ UNCHANGED <<dataFrame, transactions, categories, seq>>

GetTransaction(current_user, transaction_id) ==
    LET transaction == CrudGetTransaction(transactions, transaction_id) IN
    /\ resp' = IF transaction = None \/ transaction.user_id # current_user
               THEN DataResp("get_transaction", current_user, transaction_id,
                             404, MsgTransactionNotFound, {})
               ELSE DataResp("get_transaction", current_user, transaction_id,
                             200, "", {transaction})
    /\ UNCHANGED <<dataFrame, transactions, categories, seq>>

\* Transaction(**transaction.dict(), user_id=user_id); the body names an
\* existing category
CreateTransaction(current_user, body, category_id) ==
    LET id == seq.transactions + 1
        row == [id |-> id, user_id |-> current_user, category_id |-> category_id]
               @@ body
    IN  /\ seq.transactions < MaxTransactions
        /\ \E c \in categories : c.id = category_id
        /\ transactions' = transactions \cup {row}
        /\ seq' = [seq EXCEPT !.transactions = id]
        /\ resp' = DataResp("create_transaction", current_user, id, 201, "", {row})
        /\ UNCHANGED <<dataFrame, categories>>

UpdateTransaction(current_user, transaction_id, body) ==
    LET db_transaction == OwnTransaction(transactions, transaction_id, current_user)
        row == body @@ db_transaction
    IN  /\ IF db_transaction = None
           THEN /\ resp' = DataResp("update_transaction", current_user,
                                    transaction_id, 404, MsgTransactionNotFound, {})
                /\ UNCHANGED transactions
           ELSE /\ transactions' = (transactions \ {db_transaction}) \cup {row}
                /\ resp' = DataResp("update_transaction", current_user,
                                    transaction_id, 200, "", {row})
        /\ UNCHANGED <<dataFrame, categories, seq>>

DeleteTransaction(current_user, transaction_id) ==
    LET db_transaction == OwnTransaction(transactions, transaction_id, current_user)
    IN  /\ IF db_transaction = None
           THEN /\ resp' = DataResp("delete_transaction", current_user,
                                    transaction_id, 404, MsgTransactionNotFound, {})
                /\ UNCHANGED transactions
           ELSE /\ transactions' = transactions \ {db_transaction}
                /\ resp' = DataResp("delete_transaction", current_user,
                                    transaction_id, 200, "", {})
        /\ UNCHANGED <<dataFrame, categories, seq>>

\* setup_admin.py: the demo categories the user does not have yet, one commit
RECURSIVE DemoRows(_, _, _, _)
DemoRows(rows, user_id, i, last) ==
    IF i > Len(DemoCategories) THEN <<rows, last>>
    ELSE IF \E c \in rows : c.name = DemoCategories[i].name /\ c.user_id = user_id
    THEN DemoRows(rows, user_id, i + 1, last)
    ELSE DemoRows(rows \cup {[id |-> last + 1, user_id |-> user_id]
                             @@ DemoCategories[i]},
                  user_id, i + 1, last + 1)

CreateDemoCategories(user_id) ==
    LET r == DemoRows(categories, user_id, 1, seq.categories) IN
    /\ seq.categories + Len(DemoCategories) <= MaxCategories
    /\ categories' = r[1]
    /\ seq' = [seq EXCEPT !.categories = r[2]]
    /\ resp' = DataResp("create_demo_categories", user_id, NoId, 0, "",
                        { c \in r[1] : c.user_id = user_id })
    /\ UNCHANGED <<dataFrame, transactions>>

GetCategories(current_user) ==
    /\ resp' = DataResp("get_categories", current_user, NoId, 200, "",
                        CrudGetCategories(categories))
    /\ UNCHANGED <<dataFrame, transactions, categories, seq>>

GetCategory(current_user, category_id) ==
    LET category == CrudGetCategory(categories, category_id) IN
    /\ resp' = IF category = None
               THEN DataResp("get_category", current_user, category_id, 404,
                             MsgCategoryNotFound, {})
               ELSE DataResp("get_category", current_user, category_id, 200,
                             "", {category})
    /\ UNCHANGED <<dataFrame, transactions, categories, seq>>

\* Category(**category.dict()) carries no user_id: the INSERT breaks the NOT
\* NULL constraint of categories.user_id and the request ends in an error
CreateCategory(current_user, body) ==
    /\ resp' = DataResp("create_category", current_user, NoId, 500,
                        MsgServerError, {})
    /\ UNCHANGED <<dataFrame, transactions, categories, seq>>

UpdateCategory(current_user, category_id, body) ==
    LET db_category == CrudGetCategory(categories, category_id)
        row == body @@ db_category
    IN  /\ IF db_category = None
           THEN /\ resp' = DataResp("update_category", current_user,
                                    category_id, 404, MsgCategoryNotFound, {})
                /\ UNCHANGED categories
           ELSE /\ categories' = (categories \ {db_category}) \cup {row}
                /\ resp' = DataResp("update_category", current_user,
                                    category_id, 200, "", {row})
        /\ UNCHANGED <<dataFrame, transactions, seq>>

\* db.delete(db_category) sets category_id of the transactions of the category
\* to NULL, which transactions.category_id (NOT NULL) refuses
DeleteCategory(current_user, category_id) ==
    LET db_category == CrudGetCategory(categories, category_id)
    IN  /\ IF db_category = None
           THEN /\ resp' = DataResp("delete_category", current_user,
                                    category_id, 404, MsgCategoryNotFound, {})
                /\ UNCHANGED categories
           ELSE IF \E t \in transactions : t.category_id = category_id
           THEN /\ resp' = DataResp("delete_category", current_user,
                                    category_id, 500, MsgServerError, {})
                /\ UNCHANGED categories
           ELSE /\ categories' = categories \ {db_category}
                /\ resp' = DataResp("delete_category", current_user,
                                    category_id, 200, "", {})
        /\ UNCHANGED <<dataFrame, transactions, seq>>

TransactionIds == 1..MaxTransactions
CategoryIds == 1..MaxCategories

NextData ==
    \/ \E u \in UserIds : GetTransactions(u)
    \/ \E u \in UserIds, id \in TransactionIds : GetTransaction(u, id)
    \/ \E u \in UserIds, b \in TransactionCreates, c \in CategoryIds :
          CreateTransaction(u, b, c)
    \/ \E u \in UserIds, id \in TransactionIds, b \in TransactionUpdates :
          UpdateTransaction(u, id, b)
    \/ \E u \in UserIds, id \in TransactionIds : DeleteTransaction(u, id)
    \/ \E u \in UserIds : CreateDemoCategories(u)
    \/ \E u \in UserIds : GetCategories(u)
    \/ \E u \in UserIds, id \in CategoryIds : GetCategory(u, id)
    \/ \E u \in UserIds, b \in CategoryCreates : CreateCategory(u, b)
    \/ \E u \in UserIds, id \in CategoryIds, b \in CategoryUpdates :
          UpdateCategory(u, id, b)
    \/ \E u \in UserIds, id \in CategoryIds : DeleteCategory(u, id)

SpecData == Init /\ [][NextData]_vars

-----------------------------------------------------------------------------
(* Rate limiter: claims *)

LimiterOps == {"is_allowed", "get_remaining_requests"}

\* what is_allowed and get_remaining_requests would answer (rule, client) on the
\* windows z and reqs at time t
Probe(z, reqs, up, t, rule_name, ip) ==
    LET rule == rules[rule_name]
        key == KeyOf(rule_name, ip)
    IN  << Outcome(BackendIsAllowed(z, reqs, up, key, rule.limit,
                                    rule.window_seconds, t)),
           BackendRemaining(z, reqs, up, key, rule.limit,
                            rule.window_seconds, t).remaining >>

\* the is_allowed calls on the key of the last response before that call, within
\* the window that ended with it
PriorInWindow ==
    LET hist == calls[resp.key]
        this == hist[Len(hist)]
    IN  InWindow(SubSeq(hist, 1, Len(hist) - 1),
                 rules[resp.rule].window_seconds, this.t)

AllowedIn(cs) == Len(SelectSeq(cs, LAMBDA c : c.out = "allowed"))

\* C8: for a key with limit L and window W, an is_allowed call that returns is
\* allowed when fewer than L requests were made in the window before it (the
\* first L requests of a window), denied when L requests of that window were
\* already allowed (the (L+1)th), and allowed again when no allowed request is
\* left in the window (the window has fully elapsed since those L requests).
C8_SlidingWindow ==
    (resp.op = "is_allowed" /\ resp.outcome # "raised") =>
        LET L == rules[resp.rule].limit IN
        /\ Len(PriorInWindow) < L => resp.outcome = "allowed"
        /\ AllowedIn(PriorInWindow) >= L => resp.outcome = "denied"
        /\ AllowedIn(PriorInWindow) = 0 => resp.outcome = "allowed"

\* C9: a limiter call made for one (operation class, client), that is a step
\* that answers such a call while the clock and the Redis server stay as they
\* are, leaves the stored
\* window of every other key as it was, and with it the allow/deny outcome and
\* the remaining count every other (operation class, client) would get.
C9_KeyIsolation ==
    [][ (resp'.op \in LimiterOps /\ now' = now /\ redisUp' = redisUp) =>
          /\ \A k \in Keys \ {KeyOf(resp'.rule, resp'.ip)} :
                requests'[k] = requests[k] /\ zset'[k] = zset[k]
          /\ \A r \in RuleNames, ip \in IPs :
                <<r, ip>> # <<resp'.rule, resp'.ip>> =>
                    Probe(zset', requests', redisUp', now', r, ip)
                        = Probe(zset, requests, redisUp, now, r, ip)
      ]_vars

\* C9 witness: the first client's login limit is exhausted (its request was just
\* denied) while its register key and the other client's login key hold requests
C9_Witness ==
    /\ resp.op = "is_allowed" /\ resp.outcome = "denied"
    /\ resp.rule = "login" /\ resp.ip = "10.0.0.1"
    /\ Len(calls[KeyOf("login", "10.0.0.2")]) > 0
    /\ Len(calls[KeyOf("register", "10.0.0.1")]) > 0
    /\ Probe(zset, requests, redisUp, now, "login", "10.0.0.2")[1] = "allowed"
    /\ Probe(zset, requests, redisUp, now, "register", "10.0.0.1")[1] = "allowed"

\* C10: a limiter call made while the Redis backend is unreachable (at
\* construction or later) does not raise and is answered by the in-memory limiter.
C10_FailOpen ==
    (resp.op \in LimiterOps /\ resp.down) =>
        (resp.outcome # "raised" /\ resp.via = "fallback")

-----------------------------------------------------------------------------
(* Login: claims, stated on the steps of Spec (requests served one at a time).
   A step that answers a login leaves the clock alone and writes the answer
   to resp; the unprimed variables are the state the request found. *)

LoginStep == resp'.op = "login" /\ now' = now

\* the login rule lets a request of this client through now
LimiterAdmits(ip) ==
    LET key == "login:" \o ip
        recent == SelectSeq(requests[key], LAMBDA x : x > now - 300)
    IN  Len(recent) < 5

KnownEmail(email) == \E id \in UserIds : users[id].email = email
IdOf(email) == CHOOSE id \in UserIds : users[id].email = email
CurrentlyLocked(id) ==
    users[id].locked_until # None /\ TimeOf(users[id].locked_until) > now
PasswordMatches(id, password) == users[id].password_hash = <<"bcrypt", password>>

\* what the client sees of a login response
Visible(r) ==
    [status |-> r.status, message |-> r.message,
     access_token |-> r.access_token, refresh_token |-> r.refresh_token]
InvalidCredentials ==
    [status |-> 401, message |-> "Invalid email or password",
     access_token |-> None, refresh_token |-> None]

\* C1 (as amended): once 5 consecutive wrong-password attempts on an account
\* have each been answered InvalidCredentials, every attempt on it that the
\* login rate limit lets through within the next 30 minutes fails with
\* AccountLocked, whatever the password, unless an admin cleared the lock.
C1_LockedAfterFive ==
    [][ (/\ LoginStep
         /\ LimiterAdmits(resp'.ip)
         /\ KnownEmail(resp'.email)
         /\ expect[IdOf(resp'.email)].until > now)
        => (resp'.status = 401 /\ resp'.message = MsgLocked) ]_vars

C1_Witness ==
    /\ resp.op = "login" /\ resp.email = "alice@x.com"
    /\ resp.password = "CorrectPass1!"
    /\ resp.status = 401 /\ resp.message = MsgLocked
    /\ expect[1].until > now

\* C1 (as written): after 5 consecutive wrong-password attempts the next
\* attempt on the account, and every further one until the lock has elapsed,
\* fails with AccountLocked.
C1_SixthIsAccountLocked ==
    [][ (/\ LoginStep
         /\ KnownEmail(resp'.email)
         /\ expect[IdOf(resp'.email)].until > now)
        => (resp'.status = 401 /\ resp'.message = MsgLocked) ]_vars

C4_DeactivatedFirst ==
    [][ (/\ LoginStep
         /\ LimiterAdmits(resp'.ip)
         /\ KnownEmail(resp'.email)
         /\ ~users[IdOf(resp'.email)].is_active)
        => (/\ resp'.status = 401 /\ resp'.message = MsgDeactivated
            /\ users' = users) ]_vars

\* C5: a login the rate limiter denies fails with 429 before any credential
\* record is read, and no record or token changes, whatever was submitted.
C5_RateLimitedFirst ==
    [][ (LoginStep /\ ~LimiterAdmits(resp'.ip))
        => (/\ resp'.status = 429
            /\ ~resp'.read /\ ~resp'.verified
            /\ users' = users
            /\ tokens' = tokens /\ nextJti' = nextJti) ]_vars

C5_Witness ==
    /\ resp.op = "login" /\ resp.status = 429 /\ ~resp.read
    /\ resp.email = "alice@x.com" /\ resp.password = "CorrectPass1!"
    /\ users[1].is_active /\ ~CurrentlyLocked(1)

C7_NoLostFailure ==
    \A id \in UserIds :
        /\ users[id].failed_login_attempts = expect[id].streak
        /\ expect[id].until > now => CurrentlyLocked(id)

-----------------------------------------------------------------------------
(* Tokens: claims, stated on the response of the last verification; resp.at
   is the time it was made. *)

VerifyOps == {"verify_token", "verify_access_token"}
Issued(token) == token \in tokens
ExpiredAt(token, t) == t > token.exp

\* C11 (as amended): a token issued with one type and presented, before its
\* expiry, where the other type is expected fails with "Invalid token type";
\* at any time, a verification succeeds only for an issued token whose type is
\* the expected one.
C11_TypeIsolation ==
    resp.op \in VerifyOps =>
        /\ (Issued(resp.token) /\ resp.token.type # resp.expected
                /\ ~ExpiredAt(resp.token, resp.at))
             => (~resp.ok /\ resp.status = 401 /\ resp.detail = "Invalid token type")
        /\ resp.ok => (Issued(resp.token) /\ resp.token.type = resp.expected
                        /\ resp.payload.type = resp.expected)

C11_Witness ==
    /\ resp.op = "verify_token" /\ Issued(resp.token)
    /\ resp.token.type = "refresh" /\ resp.expected = "access"
    /\ ~resp.ok /\ resp.detail = "Invalid token type"

\* C11 (as written): a token of one type presented where the other is expected
\* fails with TypeMismatch.
C11_AlwaysTypeMismatch ==
    (resp.op \in VerifyOps /\ Issued(resp.token) /\ resp.token.type # resp.expected)
        => (~resp.ok /\ resp.detail = "Invalid token type")

\* C12: revoke on an issued, unexpired access token puts its jti in the
\* registry at once; no step ever takes a jti out of the registry; and every
\* verify_access_token of a token whose jti is in it fails, with "Token has
\* been revoked" while the token is an issued access token that has not
\* expired.
C12_RevokedForEver ==
    [][ /\ blacklist \subseteq blacklist'
        /\ (/\ resp'.op = "revoke_token" /\ now' = now
            /\ Issued(resp'.token) /\ resp'.token.type = "access"
            /\ ~ExpiredAt(resp'.token, now))
           => resp'.token.jti \in blacklist'
        /\ (/\ resp'.op = "verify_access_token"
            /\ "jti" \in DOMAIN resp'.token
            /\ resp'.token.jti \in blacklist')
           => /\ ~resp'.ok
              /\ (/\ Issued(resp'.token) /\ resp'.token.type = "access"
                  /\ ~ExpiredAt(resp'.token, resp'.at))
                 => (resp'.status = 401 /\ resp'.detail = "Token has been revoked")
      ]_vars

\* a revoked access token refused some time after the revocation, unexpired
C12_Witness ==
    /\ resp.op = "verify_access_token" /\ Issued(resp.token)
    /\ resp.token.jti \in blacklist
    /\ resp.at > resp.token.iat /\ ~ExpiredAt(resp.token, resp.at)
    /\ ~resp.ok /\ resp.detail = "Token has been revoked"

\* C13: every issued token expires at its issue time plus 30 minutes (access)
\* or 7 days (refresh); verifying an issued token after that instant fails
\* with "Token expired", and no verification made at or before it, nor any
\* verification of a token that was not issued, reports expiry.
C13_Expiry ==
    /\ \A tk \in tokens :
          /\ tk.type = "access" => tk.exp = tk.iat + 30 * 60
          /\ tk.type = "refresh" => tk.exp = tk.iat + 7 * 24 * 60 * 60
    /\ resp.op \in VerifyOps =>
          IF Issued(resp.token) /\ ExpiredAt(resp.token, resp.at)
          THEN ~resp.ok /\ resp.status = 401 /\ resp.detail = "Token expired"
          ELSE resp.detail # "Token expired"

\* an access token refused in the first second after its expiry
C13_Witness ==
    /\ resp.op \in VerifyOps /\ Issued(resp.token)
    /\ resp.token.type = "access" /\ resp.expected = "access"
    /\ resp.at = resp.token.exp + 1
    /\ ~resp.ok /\ resp.detail = "Token expired"

\* C14: the refresh operation answers an issued, unexpired refresh token with
\* 200 and a new access token (type access, a jti not issued before, the
\* subject of the refresh token) and answers anything else with 401 "Invalid
\* refresh token".
C14_RefreshIssuesAccess ==
    resp.op = "refresh" =>
        IF /\ Issued(resp.token) /\ resp.token.type = "refresh"
           /\ ~ExpiredAt(resp.token, resp.at)
        THEN /\ resp.status = 200
             /\ resp.access_token # None
             /\ resp.access_token.type = "access"
             /\ resp.access_token.sub = resp.token.sub
             /\ \A tk \in tokens \ {resp.access_token} :
                    tk.jti # resp.access_token.jti
        ELSE resp.status = 401 /\ resp.message = "Invalid refresh token"

-----------------------------------------------------------------------------
(* Registration: claims, stated on the steps of SpecReg. A registration is
   answered either by the step that makes its existence checks or by the step
   that ends its create_user. *)

RegAnswered ==
    /\ resp'.op = "register" /\ now' = now
    /\ \/ inflight' = inflight
       \/ \E w \in Workers : inflight[w] # None /\ inflight'[w] = None
EmailTaken(email) == \E id \in DOMAIN users : users[id].email = email
UsernameTaken(username) == \E id \in DOMAIN users : users[id].username = username

\* C15: a registration the rate limit admits whose email or username is that
\* of a record existing when it is answered is rejected with 400, with one
\* message for the email and another for the username, and creates no record;
\* and no two records ever share an email or a username.
C15_AlreadyExists ==
    [][ /\ (RegAnswered /\ resp'.status # 429 /\ EmailTaken(resp'.email))
           => (/\ resp'.status = 400
               /\ resp'.message = "User with this email already exists"
               /\ users' = users)
        /\ (/\ RegAnswered /\ resp'.status # 429
            /\ ~EmailTaken(resp'.email) /\ UsernameTaken(resp'.username))
           => (/\ resp'.status = 400
               /\ resp'.message = "Username already taken"
               /\ users' = users)
        /\ \A i, j \in DOMAIN users' :
              i # j => (/\ users'[i].email # users'[j].email
                        /\ users'[i].username # users'[j].username)
      ]_vars

\* the part of C15 that holds: the records stay unique by email and username
C15_Unique ==
    \A i, j \in DOMAIN users :
        i # j => (users[i].email # users[j].email
                    /\ users[i].username # users[j].username)

-----------------------------------------------------------------------------
(* get_current_user: claims, stated on the steps of SpecAuth *)

AuthStep == resp'.op = "get_current_user" /\ now' = now

\* the api rule lets a request of this client through now
ApiAdmits(ip) ==
    LET recent == SelectSeq(requests["api:" \o ip], LAMBDA x : x > now - 3600)
    IN  Len(recent) < 100

\* the bearer token is an issued access token, unexpired and unrevoked, whose
\* user exists and is active
ValidBearer(token) ==
    /\ Issued(token) /\ token.type = "access"
    /\ ~ExpiredAt(token, now)
    /\ token.jti \notin blacklist
    /\ token.user_id \in DOMAIN users
    /\ users[token.user_id].is_active

-----------------------------------------------------------------------------
(* Categories and transactions: claims, stated on the steps of SpecData *)

ByIdOps == {"get_transaction", "update_transaction", "delete_transaction"}

\* the request answered in this step names a transaction of another user
ForeignTransaction ==
    /\ resp'.op \in ByIdOps
    /\ \E t \in transactions : t.id = resp'.id /\ t.user_id # resp'.user

C18_CategoryIsolation ==
    [][ /\ resp'.op = "get_categories" =>
              \A c \in resp'.data : c.user_id = resp'.user
        /\ (/\ resp'.op = "get_category"
            /\ \E c \in categories : c.id = resp'.id /\ c.user_id # resp'.user)
           => resp'.status = 404
      ]_vars

-----------------------------------------------------------------------------
(* Lockout counter: claims *)

\* the login answered in this step carries a wrong password for an active
\* record that is not locked
WrongPasswordAttempt ==
    /\ LoginStep
    /\ KnownEmail(resp'.email)
    /\ users[IdOf(resp'.email)].is_active
    /\ ~CurrentlyLocked(IdOf(resp'.email))
    /\ ~PasswordMatches(IdOf(resp'.email), resp'.password)

\* what the claim says of such an attempt on the record id
CountedOrLocked(id) ==
    /\ Visible(resp') = InvalidCredentials
    /\ IF users[id].failed_login_attempts + 1 = 5
       THEN /\ users'[id].failed_login_attempts = 0
            /\ users'[id].locked_until = At(now + 30 * 60)
       ELSE /\ users'[id].failed_login_attempts
                  = users[id].failed_login_attempts + 1
            /\ users'[id].locked_until = users[id].locked_until

\* C19 (as amended): each wrong-password login attempt that the login rate
\* limit lets through, on an active record that is not locked, fails with
\* InvalidCredentials and increases failed_login_attempts by exactly 1, except
\* the attempt that makes it reach 5, which sets locked_until = now + 30
\* minutes and stores 0; the stored failed_login_attempts is always in 0..4.
C19_FailedAttemptCounter ==
    [][ /\ (WrongPasswordAttempt /\ LimiterAdmits(resp'.ip))
           => CountedOrLocked(IdOf(resp'.email))
        /\ \A id \in UserIds : users'[id].failed_login_attempts \in 0..4
      ]_vars

C19_Witness ==
    /\ resp.op = "login" /\ resp.email = "alice@x.com"
    /\ Visible(resp) = InvalidCredentials
    /\ users[1].failed_login_attempts = 0
    /\ users[1].locked_until = At(now + 30 * 60)

\* C19 (as written): every wrong-password attempt on an active record that is
\* not locked is answered InvalidCredentials and counted.
C19_EveryWrongAttempt ==
    [][ WrongPasswordAttempt => CountedOrLocked(IdOf(resp'.email)) ]_vars

\* C20: a record that is locked now has failed_login_attempts = 0, under any
\* interleaving of login attempts on the record.
C20_LockedHasZeroCount ==
    \A id \in UserIds :
        CurrentlyLocked(id) => users[id].failed_login_attempts = 0

-----------------------------------------------------------------------------
(* is_allowed served by concurrent threads or worker processes. Each call
   reads the clock first (current_time = time.time()) and runs its
   evict-check-record sequence later, in one piece: under self._lock in the
   in-memory limiter, as one MULTI/EXEC pipeline in Redis. *)

InFlight(w) == inflight[w] # None

\* the calls in flight that read the same clock value as a call starting now
\* on the same key: their str(current_time) is the same sorted-set member
SameReading(w, key) ==
    { inflight[v].member : v \in { x \in Workers \ {w} :
          /\ InFlight(x)
          /\ inflight[x].key = key
          /\ inflight[x].current_time = now } }

IsAllowedBegin(w, rule_name, ip) ==
    LET key == KeyOf(rule_name, ip)
        started == Len(calls[key])
                   + Cardinality({ v \in Workers : InFlight(v) })
    IN  /\ ~InFlight(w)
        /\ started < MaxConcCalls
        /\ \E member \in {w} \cup SameReading(w, key) :
              inflight' = [inflight EXCEPT ![w] =
                  [rule |-> rule_name, ip |-> ip, key |-> key,
                   current_time |-> now, member |-> member, added |-> FALSE]]
        /\ UNCHANGED <<appVars, now, requests, zset, backend, available,
                       hasFallback, redisUp, users, tokens, nextJti, resp,
                       calls, expect>>

\* zadd(key, {str(current_time): current_time}) of a member the sorted set
\* already holds adds nothing: the pipeline leaves the set as the eviction left it
ZAddKnown(a, key) ==
    [a EXCEPT !.zset = [a.zset EXCEPT ![key] = SubSeq(@, 1, Len(@) - 1)]]

IsAllowedFinish(w) ==
    LET c == inflight[w]
        rule == rules[c.rule]
        a == BackendIsAllowed(zset, requests, redisUp, c.key, rule.limit,
                              rule.window_seconds, c.current_time)
        known == /\ a.via = "redis" /\ c.added
                 /\ \E i \in 1..(Len(a.zset[c.key]) - 1) :
                        a.zset[c.key][i] = c.current_time
        b == IF known THEN ZAddKnown(a, c.key) ELSE a
    IN  /\ InFlight(w)
        /\ requests' = b.requests
        /\ zset' = b.zset
        /\ resp' = [op |-> "is_allowed", rule |-> c.rule, ip |-> c.ip,
                    key |-> c.key, outcome |-> Outcome(b), via |-> b.via,
                    down |-> (backend = "redis" /\ ~redisUp),
                    current_time |-> c.current_time]
        /\ calls' = [calls EXCEPT ![c.key] =
                        Append(@, [t |-> c.current_time, out |-> Outcome(b)])]
        /\ inflight' = [v \in Workers |->
                          IF v = w THEN None
                          ELSE IF InFlight(v) /\ b.via = "redis"
                                  /\ inflight[v].member = c.member
                          THEN [inflight[v] EXCEPT !.added = TRUE]
                          ELSE inflight[v]]
        /\ UNCHANGED <<appVars, now, backend, available, hasFallback, redisUp,
                       users, tokens, nextJti, expect>>

NextRLConc ==
    \/ \E w \in Workers, rq \in RLConcRequests : IsAllowedBegin(w, rq[1], rq[2])
    \/ \E w \in Workers : IsAllowedFinish(w)
    \/ \E d \in TickStepsRLConc : Tick(d, HorizonRLConc)

SpecRLConc == InitRL /\ [][NextRLConc]_vars

-----------------------------------------------------------------------------
(* PUT /auth/admin/users/{user_id}/role. get_current_user is a coroutine and
   resolves on the event loop; the endpoint is a plain def and runs in the
   thread pool on the row the dependency loaded. Two requests therefore
   interleave between the dependency and the endpoint. deactivate_user has no
   route; it is called here by an active admin, in one piece. *)

Roles == {"user", "admin"}
\* the ids a request may name: the records and one id that has no record
TargetIds == UserIds \cup {3}

RoleResp(actor, target, role, status) ==
    [op |-> "update_user_role", actor |-> actor, target |-> target,
     role |-> role, status |-> status]

\* get_current_admin_user over get_current_active_user over get_current_user,
\* for a request that bears a valid access token of the actor
GetCurrentAdminUser(actor) ==
    LET user == GetUserById(users, actor) IN
    IF ~user.is_active \/ IsLocked(user, now) THEN [status |-> 401, user |-> user]
    ELSE IF user.role # "admin" THEN [status |-> 403, user |-> user]
    ELSE [status |-> 200, user |-> user]

\* the dependencies of update_user_role_endpoint
UpdateUserRoleBegin(w, actor, target, role) ==
    LET a == GetCurrentAdminUser(actor) IN
    /\ inflight[w] = None
    /\ IF a.status # 200
       THEN /\ resp' = RoleResp(actor, target, role, a.status)
            /\ UNCHANGED inflight
       ELSE /\ inflight' = [inflight EXCEPT ![w] =
                    [current_user |-> a.user, target |-> target, role |-> role]]
            /\ UNCHANGED resp
    /\ UNCHANGED <<appVars, now, requests, zset, backend, available, hasFallback,
                   redisUp, users, tokens, nextJti, calls, expect>>

\* crud.update_user_role and the endpoint's answer
UpdateUserRole(current_user, target, role) ==
    IF current_user.role # "admin"
    THEN [status |-> 400, users |-> users]
    ELSE IF GetUserById(users, target) = None
    THEN [status |-> 404, users |-> users]
    ELSE IF target = current_user.id /\ role # "admin"
    THEN [status |-> 400, users |-> users]
    ELSE [status |-> 200, users |-> [users EXCEPT ![target].role = role]]

\* update_user_role_endpoint in its thread
UpdateUserRoleEndpoint(w) ==
    /\ inflight[w] # None
    /\ LET c == inflight[w]
           u == UpdateUserRole(c.current_user, c.target, c.role)
       IN  /\ users' = u.users
           /\ resp' = RoleResp(c.current_user.id, c.target, c.role, u.status)
    /\ inflight' = [inflight EXCEPT ![w] = None]
    /\ UNCHANGED <<appVars, now, requests, zset, backend, available, hasFallback,
                   redisUp, tokens, nextJti, calls, expect>>

\* deactivate_user called by an active admin
DeactivateByAdmin(actor, target) ==
    /\ users[actor].role = "admin" /\ users[actor].is_active
    /\ DeactivateUser(actor, target)

\* the records at the start: root is an active admin, alice any role, active or not
InitRole ==
    /\ now = 0
    /\ requests = [k \in Keys |-> <<>>]
    /\ zset = [k \in Keys |-> <<>>]
    /\ redisUp = FALSE
    /\ backend = "memory"
    /\ available = FALSE
    /\ hasFallback = FALSE
    /\ \E r \in Roles, a \in BOOLEAN :
          users = [InitUsers EXCEPT ![1].role = r, ![1].is_active = a]
    /\ tokens = {}
    /\ nextJti = 1
    /\ inflight = [w \in Workers |-> None]
    /\ resp = NoResp
    /\ blacklist = {}
    /\ transactions = {}
    /\ categories = {}
    /\ seq = [transactions |-> 0, categories |-> 0]
    /\ calls = [k \in Keys |-> <<>>]
    /\ expect = [id \in UserIds |-> [streak |-> 0, until |-> 0]]

NextRole ==
    \/ \E w \in Workers, actor \in UserIds, target \in TargetIds, role \in Roles :
          UpdateUserRoleBegin(w, actor, target, role)
    \/ \E w \in Workers : UpdateUserRoleEndpoint(w)
    \/ \E actor \in UserIds, target \in UserIds : DeactivateByAdmin(actor, target)

SpecRole == InitRole /\ [][NextRole]_vars

-----------------------------------------------------------------------------
(* check_rate_limit step by step: backend.is_allowed and
   backend.get_remaining_requests are two calls, each reading time.time() and
   taking the lock (or talking to Redis) on its own; the clock moves and other
   threads' calls run between them. *)

CheckRequests == { <<"login", "10.0.0.1">> }
TickStepsCheck == {150}

CheckResp(c, outcome, remaining) ==
    [op |-> "check_rate_limit", rule |-> c.rule, ip |-> c.ip, key |-> c.key,
     outcome |-> outcome, allowed |-> c.allowed, remaining |-> remaining,
     began |-> c.began, at |-> now]

\* is_allowed = self.backend.is_allowed(key, rule.limit, rule.window_seconds)
CheckRateLimitBegin(w, rule_name, ip) ==
    LET rule == rules[rule_name]
        key == KeyOf(rule_name, ip)
        a == BackendIsAllowed(zset, requests, redisUp, key, rule.limit,
                              rule.window_seconds, now)
        c == [rule |-> rule_name, ip |-> ip, key |-> key, allowed |-> a.allowed,
              began |-> now]
    IN  /\ inflight[w] = None
        /\ Len(calls[key]) < MaxCheckCalls
        /\ requests' = a.requests
        /\ zset' = a.zset
        /\ calls' = [calls EXCEPT ![key] =
                        Append(@, [t |-> now, out |-> Outcome(a)])]
        /\ IF a.raised
           THEN resp' = CheckResp(c, "raised", 0) /\ UNCHANGED inflight
           ELSE inflight' = [inflight EXCEPT ![w] = c] /\ UNCHANGED resp
        /\ UNCHANGED <<appVars, now, backend, available, hasFallback, redisUp,
                       users, tokens, nextJti, expect>>

\* remaining = self.backend.get_remaining_requests(...); return {...}
CheckRateLimitFinish(w) ==
    /\ inflight[w] # None
    /\ LET c == inflight[w]
           rule == rules[c.rule]
           r == BackendRemaining(zset, requests, redisUp, c.key, rule.limit,
                                 rule.window_seconds, now)
       IN  /\ requests' = r.requests
           /\ zset' = r.zset
           /\ resp' = CheckResp(c, IF r.raised THEN "raised" ELSE "returned",
                                r.remaining)
    /\ inflight' = [inflight EXCEPT ![w] = None]
    /\ UNCHANGED <<appVars, now, backend, available, hasFallback, redisUp,
                   users, tokens, nextJti, calls, expect>>

NextCheck ==
    \/ \E w \in Workers, rq \in CheckRequests : CheckRateLimitBegin(w, rq[1], rq[2])
    \/ \E w \in Workers : CheckRateLimitFinish(w)
    \/ RedisDown
    \/ \E d \in TickStepsCheck : Tick(d, HorizonCheck)

SpecCheck == InitRL /\ [][NextCheck]_vars

-----------------------------------------------------------------------------
(* Rate limiter: the stored window *)

\* a step that answers an is_allowed call without raising
IsAllowedStep ==
    resp'.op = "is_allowed" /\ now' = now /\ resp'.outcome # "raised"

\* the window the answering backend keeps for the key: the sorted set of
\* Redis, or the deque of the in-memory limiter
StoredWindow(z, reqs, via, key) == IF via = "redis" THEN z[key] ELSE reqs[key]

CountAt(q, t) == Len(SelectSeq(q, LAMBDA x : x = t))

\* what C21 says of the window stored after an is_allowed call
WindowKept(before, after, rule_name, denied) ==
    /\ denied => CountAt(after, now) = CountAt(before, now)
    /\ \A i \in 1..Len(after) : after[i] > now - rules[rule_name].window_seconds
    /\ Len(after) <= rules[rule_name].limit

\* C21: on both backends a denied is_allowed call records nothing, and after
\* every is_allowed call the stored window of the key holds only timestamps
\* newer than now - window_seconds, and at most limit of them.
C21_StoredWindow ==
    [][ IsAllowedStep =>
          WindowKept(StoredWindow(zset, requests, resp'.via, resp'.key),
                     StoredWindow(zset', requests', resp'.via, resp'.key),
                     resp'.rule, resp'.outcome = "denied")
      ]_vars

-----------------------------------------------------------------------------
(* Rate limiter: concurrent calls, stated on SpecRLConc *)

\* the calls of the history cs that were allowed and whose clock reading lies
\* in the window that ends at t
AllowedInWindow(cs, window, t) ==
    Len(SelectSeq(cs, LAMBDA c : c.out = "allowed" /\ c.t > t - window /\ c.t <= t))

\* C22: under any interleaving of is_allowed calls on a key, the calls allowed
\* within a window (by the time each call read) never exceed limit, and the
\* step that answers an allowed call records its timestamp exactly once.
C22_AtomicWindow ==
    [][ (resp'.op = "is_allowed" /\ resp'.outcome # "raised"
            /\ calls' # calls) =>
          LET key == resp'.key
              rule == rules[resp'.rule]
              t == resp'.current_time
              before == StoredWindow(zset, requests, resp'.via, key)
              after == StoredWindow(zset', requests', resp'.via, key)
          IN  /\ \A i \in 1..Len(calls'[key]) :
                    AllowedInWindow(calls'[key], rule.window_seconds,
                                    calls'[key][i].t) <= rule.limit
              /\ resp'.outcome = "allowed" =>
                    CountAt(after, t) = CountAt(before, t) + 1
      ]_vars

-----------------------------------------------------------------------------
(* Revocation: claims, stated on the steps of SpecTok *)

RevokeStep == resp'.op = "revoke_token" /\ now' = now

\* the token is one the server issued as an access token and has not expired
CurrentAccessToken(token) ==
    Issued(token) /\ token.type = "access" /\ ~ExpiredAt(token, now)

\* C23: revoke_token raises nothing; applied to a token that does not verify
\* now as an access token (bad signature, expired, or another type) it leaves
\* the registry as it is; applied to one that does, it inserts its jti and
\* nothing else; and nothing but revoke_token changes the registry.
C23_RevokeNoOp ==
    [][ /\ RevokeStep =>
              /\ resp'.ok
              /\ blacklist' = IF CurrentAccessToken(resp'.token)
                              THEN blacklist \cup {resp'.token.jti}
                              ELSE blacklist
        /\ blacklist' # blacklist => RevokeStep
      ]_vars

\* revoke_token was just applied to an issued access token after its expiry,
\* and its jti is not in the registry
C23_Witness ==
    /\ resp.op = "revoke_token" /\ Issued(resp.token)
    /\ resp.token.type = "access" /\ ExpiredAt(resp.token, resp.at)
    /\ resp.token.jti \notin blacklist

\* C24: a verification of a token whose jti is in the registry fails, through
\* JWTManager.verify_token for either expected type as through
\* verify_access_token, and with "Token has been revoked" when the token is an
\* issued one of the expected type that has not expired.
C24_RevokedEverywhere ==
    (/\ resp.op \in VerifyOps
     /\ "jti" \in DOMAIN resp.token
     /\ resp.token.jti \in blacklist)
    => /\ ~resp.ok
       /\ (/\ Issued(resp.token) /\ resp.token.type = resp.expected
           /\ ~ExpiredAt(resp.token, resp.at))
          => (resp.status = 401 /\ resp.detail = "Token has been revoked")

-----------------------------------------------------------------------------
(* Admin unlock: claims, stated on the steps of Spec *)

ResetStep == resp'.op = "reset_user_failed_attempts" /\ now' = now

\* the last answer was that of an admin unlock that found the record locked
JustUnlocked ==
    /\ resp.op = "reset_user_failed_attempts"
    /\ resp.outcome = "ok" /\ resp.locked

\* the login answered in this step is for the unlocked record, with its password
LoginOnUnlocked ==
    /\ LoginStep /\ JustUnlocked
    /\ resp'.email = users[resp.target].email
    /\ PasswordMatches(resp.target, resp'.password)

\* reset_user_failed_attempts by an admin stores 0 and None on the target and
\* nothing else; by anyone else it fails and changes no record
ResetEffect ==
    ResetStep =>
        IF users[resp'.actor].role = "admin"
        THEN /\ resp'.outcome = "ok"
             /\ users' = [users EXCEPT
                            ![resp'.target].failed_login_attempts = 0,
                            ![resp'.target].locked_until = None]
        ELSE /\ resp'.outcome = "ValueError"
             /\ users' = users

\* C25 (as amended): reset_user_failed_attempts by an admin sets
\* failed_login_attempts to 0 and clears locked_until; a correct-password login
\* on the record that follows the unlock of a locked, active record and that
\* the login rate limit lets through succeeds although the lock had not
\* elapsed; by a non-admin the reset fails and changes nothing.
C25_AdminUnlock ==
    [][ /\ ResetEffect
        /\ (/\ LoginOnUnlocked
            /\ users[resp.target].is_active
            /\ LimiterAdmits(resp'.ip))
           => (resp'.status = 200 /\ resp'.access_token # None)
      ]_vars

\* an admin has just unlocked the locked record of alice
C25_Witness ==
    /\ JustUnlocked /\ resp.actor = 2 /\ resp.target = 1
    /\ users[1].failed_login_attempts = 0 /\ users[1].locked_until = None

\* C25 (as written): after the unlock of a locked record a correct-password
\* login on it succeeds.
C25_LoginSucceedsAfterUnlock ==
    [][ /\ ResetEffect
        /\ LoginOnUnlocked => resp'.status = 200
      ]_vars

-----------------------------------------------------------------------------
(* Tokens and credential records: claims, stated on the steps of SpecTok *)

TokenOps == VerifyOps \cup {"revoke_token", "refresh", "get_current_user"}

\* a step that answers a verification, an authentication, a refresh or a revoke
TokenStep == resp'.op \in TokenOps /\ now' = now

\* this verification follows a successful one of the same token, with nothing
\* but the clock in between, and the token is still unexpired and unrevoked
VerifiedAgain ==
    /\ resp.op \in VerifyOps /\ resp.ok
    /\ resp'.op \in VerifyOps
    /\ resp'.token = resp.token /\ resp'.expected = resp.expected
    /\ ~ExpiredAt(resp'.token, now')
    /\ resp'.token.jti \notin blacklist'

\* C26: token verification, get_current_user, refresh and revoke leave every
\* credential record as it is, and a token that verified and is still
\* unexpired and unrevoked verifies again with the same claims.
C26_NoEffectOnRecords ==
    [][ /\ TokenStep => users' = users
        /\ VerifiedAgain => (resp'.ok /\ resp'.payload = resp.payload)
      ]_vars

\* an access token issued at login verified once more at the second of its
\* expiry, the record as the login left it
C26_Witness ==
    /\ resp.op = "verify_access_token" /\ resp.ok
    /\ Issued(resp.token) /\ resp.at = resp.token.exp
    /\ resp.payload = ClaimsOf(resp.token)
    /\ users[1].last_login = At(resp.token.iat)
    /\ users[1].failed_login_attempts = 0

-----------------------------------------------------------------------------
(* Admin records: claims *)

ActiveAdmins == { id \in UserIds : users[id].role = "admin" /\ users[id].is_active }

\* C28: starting with an active admin, whatever role updates and
\* deactivations admins perform, in sequence or interleaved, some record
\* stays an active admin.
C28_ActiveAdminRemains == ActiveAdmins # {}

-----------------------------------------------------------------------------
(* A locked account and its token: claims, stated on the steps of SpecLock *)

\* a request bearing an issued access token, unexpired and unrevoked, of an
\* existing active user
BearerStep == AuthStep /\ ValidBearer(resp'.token)

\* C27 (as amended): while the account is locked a request bearing the user's
\* otherwise valid access token is refused, with 401, or with 429 when the api
\* rate limit denies the client; once locked_until has passed the same token,
\* unexpired and unrevoked, is accepted again without a new login.
C27_LockedThenAccepted ==
    [][ BearerStep =>
          LET id == resp'.token.user_id IN
          /\ CurrentlyLocked(id) =>
                (/\ resp'.user = None
                 /\ resp'.status = (IF ApiAdmits(resp'.ip) THEN 401 ELSE 429))
          /\ (~CurrentlyLocked(id) /\ ApiAdmits(resp'.ip)) =>
                (resp'.status = 200 /\ resp'.user = users[id])
      ]_vars

\* the token issued before the lockout is accepted at the second the lock
\* runs out, the record still carrying that locked_until
C27_Witness ==
    /\ resp.op = "get_current_user" /\ resp.status = 200
    /\ Issued(resp.token) /\ resp.user = users[1]
    /\ users[1].locked_until # None
    /\ TimeOf(users[1].locked_until) = now
    /\ resp.token.iat < now

\* C27 (as written): while the account is locked every request bearing the
\* token is refused with 401.
C27_LockedIs401 ==
    [][ (BearerStep /\ CurrentlyLocked(resp'.token.user_id))
            => resp'.status = 401 ]_vars

-----------------------------------------------------------------------------
(* check_rate_limit: claims, stated on the states of SpecCheck *)

\* C29: the result of one check_rate_limit call is that of one snapshot of
\* the window: a result with allowed = false carries remaining = 0, whatever
\* time passes and whatever other calls run between its two backend calls.
C29_DeniedHasNoneRemaining ==
    (resp.op = "check_rate_limit" /\ resp.outcome = "returned" /\ ~resp.allowed)
        => resp.remaining = 0

-----------------------------------------------------------------------------
(* Retry-After: claims, stated on the steps of SpecRL *)

\* the last is_allowed call for the key was denied exactly one window ago
DeniedOneWindowAgo(rule_name, key) ==
    /\ calls[key] # <<>>
    /\ LET last == calls[key][Len(calls[key])] IN
          /\ last.out = "denied"
          /\ last.t + rules[rule_name].window_seconds = now

\* a step in which an is_allowed call for the key of the new response is made
IsAllowedCall ==
    /\ resp'.op = "is_allowed" /\ now' = now
    /\ Len(calls'[resp'.key]) = Len(calls[resp'.key]) + 1

\* C30: a key denied at time t, with Retry-After = window_seconds, and not
\* asked for again in between, is allowed at time t + window_seconds.
C30_RetryAfterSuffices ==
    [][ (IsAllowedCall /\ DeniedOneWindowAgo(resp'.rule, resp'.key))
            => resp'.outcome = "allowed" ]_vars
====
